---- MODULE Spec2Model ----
(***************************************************************************)
(* Model of the decision-orchestration core of the HTB agent               *)
(* (src/agent/main.py, src/agent/tools.py).                                *)
(*                                                                         *)
(* Five specifications share the variables:                                *)
(*   Spec       run(target) as main.py executes it;                        *)
(*   SpecRound  one call of reasoning_agent_analyze, step by step, on an   *)
(*              agent whose fields and arguments are drawn from bounded     *)
(*              sets;                                                      *)
(*   SpecAgent  the steps of Spec and of SpecRound together;               *)
(*   SpecParse  the clean-and-parse step of reasoning_agent_analyze on     *)
(*              every reply text up to MaxTextLen tokens;                  *)
(*   SpecLoop   run(target) from its start, from main.py:553 with the     *)
(*              result of the first tool, and from main.py:575 with a      *)
(*              returned decision in any iteration.                        *)
(*                                                                         *)
(* A Python str is named by a TLA+ string; where the code looks inside a   *)
(* str (lower(), the in operator) Chars gives its characters and the       *)
(* operation is computed on them. A reply of the strategist is a sequence  *)
(* of tokens.                                                              *)
(***************************************************************************)
EXTENDS Naturals, Integers, Sequences, FiniteSets, TLC

VARIABLES
    \* HTBAgent fields (main.py:30-37)
    reasoning_history, executor_history,
    discovered_services, completed_actions, downloaded_files,
    \* run(): position, argument, locals, exception that left it, the counts
    \* its summary printed
    pc, target, execution, raised, result, iteration, summary,
    \* executor_agent_execute(): its instruction argument
    instruction,
    \* reasoning_agent_analyze(): position, arguments, locals, return value
    rpc, tool_used, execution_result, content, decision, exc, returned, path

agent == <<reasoning_history, executor_history,
           discovered_services, completed_actions, downloaded_files>>
runv  == <<pc, target, execution, raised, result, iteration, summary, instruction>>
roundv == <<rpc, tool_used, execution_result, content, decision, exc, returned, path>>
vars  == <<agent, runv, roundv>>

(***************************************************************************)
(* Bounds of the model.                                                    *)
(***************************************************************************)
MaxTextLen == 5

(***************************************************************************)
(* Python str operations on characters.                                    *)
(***************************************************************************)
UpperLetters == <<"A","B","C","D","E","F","G","H","I","J","K","L","M",
                  "N","O","P","Q","R","S","T","U","V","W","X","Y","Z">>
LowerLetters == <<"a","b","c","d","e","f","g","h","i","j","k","l","m",
                  "n","o","p","q","r","s","t","u","v","w","x","y","z">>

LowerChar(c) ==
    IF \E i \in 1..26 : UpperLetters[i] = c
    THEN LowerLetters[CHOOSE i \in 1..26 : UpperLetters[i] = c]
    ELSE c

\* str.lower()
Lower(s) == [i \in 1..Len(s) |-> LowerChar(s[i])]

\* sub in s, for sequences (of characters or of tokens)
ContainsSeq(s, sub) ==
    \E i \in 1..(Len(s) + 1) :
        /\ i + Len(sub) - 1 <= Len(s)
        /\ SubSeq(s, i, i + Len(sub) - 1) = sub

\* main.py:541
InitialInstruction ==
    "Perform initial nmap scan with service version detection and default scripts"

\* The characters of the strings the model uses.
Chars(s) ==
    CASE s = ""              -> <<>>
      [] s = "ftp"           -> <<"f","t","p">>
      [] s = "flag.txt"      -> <<"f","l","a","g",".","t","x","t">>
      [] s = "FLAG.TXT"      -> <<"F","L","A","G",".","T","X","T">>
      [] s = "open"          -> <<"o","p","e","n">>
      [] s = "none"          -> <<"n","o","n","e">>
      [] s = "ftp:21"        -> <<"f","t","p",":","2","1">>
      [] s = "FTP:21"        -> <<"F","T","P",":","2","1">>
      [] s = "smb:445"       -> <<"s","m","b",":","4","4","5">>
      [] s = "file:flag.txt" -> <<"f","i","l","e",":","f","l","a","g",".","t","x","t">>
      [] s = "cat" -> <<"c","a","t">>
      [] s = "read" -> <<"r","e","a","d">>
      [] s = "nmap" -> <<"n","m","a","p">>
      [] s = "initial" -> <<"i","n","i","t","i","a","l">>
      [] s = "scan" -> <<"s","c","a","n">>
      [] s = "gobuster" -> <<"g","o","b","u","s","t","e","r">>
      [] s = "whatweb" -> <<"w","h","a","t","w","e","b">>
      [] s = "nikto" -> <<"n","i","k","t","o">>
      [] s = "enum4linux" -> <<"e","n","u","m","4","l","i","n","u","x">>
      [] s = "smbclient" -> <<"s","m","b","c","l","i","e","n","t">>
      [] s = "searchsploit" -> <<"s","e","a","r","c","h","s","p","l","o","i","t">>
      [] s = "nc" -> <<"n","c">>
      [] s = "netcat" -> <<"n","e","t","c","a","t">>
      [] s = "get" -> <<"g","e","t">>
      [] s = "ls" -> <<"l","s">>
      [] s = "get flag.txt" -> <<"g","e","t"," ","f","l","a","g",".","t","x","t">>
      [] s = "GET notes.txt" -> <<"G","E","T"," ","n","o","t","e","s",".","t","x","t">>
      [] s = "notes.txt" -> <<"n","o","t","e","s",".","t","x","t">>
      [] s = "unknown" -> <<"u","n","k","n","o","w","n">>
      [] s = "-sV" -> <<"-","s","V">>
      [] s = "anonymous" -> <<"a","n","o","n","y","m","o","u","s">>
      [] s = "10.10.10.5" -> <<"1","0",".","1","0",".","1","0",".","5">>
      [] s = "10.129.14.7" -> <<"1","0",".","1","2","9",".","1","4",".","7">>
      [] s = "/tcp" ->
         <<"/","t","c","p">>
      [] s = "/udp" ->
         <<"/","u","d","p">>
      [] s = "21/tcp open ftp" ->
         <<"2","1","/","t","c","p"," ","o","p","e","n"," ","f","t","p">>
      [] s = "22/tcp open ssh" ->
         <<"2","2","/","t","c","p"," ","o","p","e","n"," ","s","s","h">>
      [] s = "53/udp open domain" ->
         <<"5","3","/","u","d","p"," ","o","p","e","n"," ","d","o","m","a",
            "i","n">>
      [] s = "21/tcp open ftp\n21/tcp open ftp" ->
         <<"2","1","/","t","c","p"," ","o","p","e","n"," ","f","t","p","\n",
            "2","1","/","t","c","p"," ","o","p","e","n"," ","f","t","p">>
      [] s = "PORT STATE SERVICE\n21/tcp open ftp\n 22/tcp open ssh " ->
         <<"P","O","R","T"," ","S","T","A","T","E"," ","S","E","R","V","I",
            "C","E","\n","2","1","/","t","c","p"," ","o","p","e","n"," ","f",
            "t","p","\n"," ","2","2","/","t","c","p"," ","o","p","e","n"," ",
            "s","s","h"," ">>
      [] s = "21/tcp closed ftp" ->
         <<"2","1","/","t","c","p"," ","c","l","o","s","e","d"," ","f","t",
            "p">>
      [] s = "Execute " ->
         <<"E","x","e","c","u","t","e"," ">>
      [] s = " for " ->
         <<" ","f","o","r"," ">>
      [] s = ". " ->
         <<"."," ">>
      [] s = "None" ->
         <<"N","o","n","e">>
      [] s = "hydra" ->
         <<"h","y","d","r","a">>
      [] s = "http:80" ->
         <<"h","t","t","p",":","8","0">>
      [] s = "Download visible files from FTP" ->
         <<"D","o","w","n","l","o","a","d"," ","v","i","s","i","b","l","e",
            " ","f","i","l","e","s"," ","f","r","o","m"," ","F","T","P">>
      [] s = "Read downloaded file contents" ->
         <<"R","e","a","d"," ","d","o","w","n","l","o","a","d","e","d"," ",
            "f","i","l","e"," ","c","o","n","t","e","n","t","s">>
      [] s = "Use this tool" ->
         <<"U","s","e"," ","t","h","i","s"," ","t","o","o","l">>
      [] s = "Download files from FTP (corrected from invalid enum4linux suggestion)" ->
         <<"D","o","w","n","l","o","a","d"," ","f","i","l","e","s"," ","f",
            "r","o","m"," ","F","T","P"," ","(","c","o","r","r","e","c","t",
            "e","d"," ","f","r","o","m"," ","i","n","v","a","l","i","d"," ",
            "e","n","u","m","4","l","i","n","u","x"," ","s","u","g","g","e",
            "s","t","i","o","n",")">>
      [] s = "Locate hidden directories" ->
         <<"L","o","c","a","t","e"," ","h","i","d","d","e","n"," ","d","i",
            "r","e","c","t","o","r","i","e","s">>
      [] s = "Error in execution" ->
         <<"E","r","r","o","r"," ","i","n"," ","e","x","e","c","u","t","i",
            "o","n">>
      [] s = "Error: Unknown tool" ->
         <<"E","r","r","o","r",":"," ","U","n","k","n","o","w","n"," ","t",
            "o","o","l">>
      [] s = "Error executing" ->
         <<"E","r","r","o","r"," ","e","x","e","c","u","t","i","n","g">>
      [] s = "Execute ftp for ftp:21. Download visible files from FTP" ->
         <<"E","x","e","c","u","t","e"," ","f","t","p"," ","f","o","r"," ",
            "f","t","p",":","2","1","."," ","D","o","w","n","l","o","a","d",
            " ","v","i","s","i","b","l","e"," ","f","i","l","e","s"," ","f",
            "r","o","m"," ","F","T","P">>
      [] s = "Execute cat for file:flag.txt. Read downloaded file contents" ->
         <<"E","x","e","c","u","t","e"," ","c","a","t"," ","f","o","r"," ",
            "f","i","l","e",":","f","l","a","g",".","t","x","t","."," ","R",
            "e","a","d"," ","d","o","w","n","l","o","a","d","e","d"," ","f",
            "i","l","e"," ","c","o","n","t","e","n","t","s">>
      [] s = "Execute nmap for None. Use this tool" ->
         <<"E","x","e","c","u","t","e"," ","n","m","a","p"," ","f","o","r",
            " ","N","o","n","e","."," ","U","s","e"," ","t","h","i","s"," ",
            "t","o","o","l">>
      [] s = "Execute None for None. Use this tool" ->
         <<"E","x","e","c","u","t","e"," ","N","o","n","e"," ","f","o","r",
            " ","N","o","n","e","."," ","U","s","e"," ","t","h","i","s"," ",
            "t","o","o","l">>
      [] s = "Execute hydra for None. " ->
         <<"E","x","e","c","u","t","e"," ","h","y","d","r","a"," ","f","o",
            "r"," ","N","o","n","e","."," ">>
      [] s = "Execute ftp for FTP:21. Download files from FTP (corrected from invalid enum4linux suggestion)" ->
         <<"E","x","e","c","u","t","e"," ","f","t","p"," ","f","o","r"," ",
            "F","T","P",":","2","1","."," ","D","o","w","n","l","o","a","d",
            " ","f","i","l","e","s"," ","f","r","o","m"," ","F","T","P"," ",
            "(","c","o","r","r","e","c","t","e","d"," ","f","r","o","m"," ",
            "i","n","v","a","l","i","d"," ","e","n","u","m","4","l","i","n",
            "u","x"," ","s","u","g","g","e","s","t","i","o","n",")">>
      [] s = "Execute smbclient for smb:445. Use this tool" ->
         <<"E","x","e","c","u","t","e"," ","s","m","b","c","l","i","e","n",
            "t"," ","f","o","r"," ","s","m","b",":","4","4","5","."," ","U",
            "s","e"," ","t","h","i","s"," ","t","o","o","l">>
      [] s = "Execute gobuster for http:80. Locate hidden directories" ->
         <<"E","x","e","c","u","t","e"," ","g","o","b","u","s","t","e","r",
            " ","f","o","r"," ","h","t","t","p",":","8","0","."," ","L","o",
            "c","a","t","e"," ","h","i","d","d","e","n"," ","d","i","r","e",
            "c","t","o","r","i","e","s">>
      [] s = "Error: " ->
         <<"E","r","r","o","r",":"," ">>
      [] s = "Connection refused" ->
         <<"C","o","n","n","e","c","t","i","o","n"," ","r","e","f","u","s",
            "e","d">>
      [] s = "No such file or directory" ->
         <<"N","o"," ","s","u","c","h"," ","f","i","l","e"," ","o","r"," ",
            "d","i","r","e","c","t","o","r","y">>
      [] s = "Timeout: command exceeded 5 minutes" ->
         <<"T","i","m","e","o","u","t",":"," ","c","o","m","m","a","n","d",
            " ","e","x","c","e","e","d","e","d"," ","5"," ","m","i","n","u",
            "t","e","s">>
      [] s = "Error: Connection refused" ->
         <<"E","r","r","o","r",":"," ","C","o","n","n","e","c","t","i","o",
            "n"," ","r","e","f","u","s","e","d">>
      [] s = "Error: No such file or directory" ->
         <<"E","r","r","o","r",":"," ","N","o"," ","s","u","c","h"," ","f",
            "i","l","e"," ","o","r"," ","d","i","r","e","c","t","o","r","y">>
      [] s = "Error: Timeout: command exceeded 5 minutes" ->
         <<"E","r","r","o","r",":"," ","T","i","m","e","o","u","t",":"," ",
            "c","o","m","m","a","n","d"," ","e","x","c","e","e","d","e","d",
            " ","5"," ","m","i","n","u","t","e","s">>
      [] s = "complete" ->
         <<"c","o","m","p","l","e","t","e">>
      [] s = "Execute complete for None. Use this tool" ->
         <<"E","x","e","c","u","t","e"," ","c","o","m","p","l","e","t","e",
            " ","f","o","r"," ","N","o","n","e","."," ","U","s","e"," ","t",
            "h","i","s"," ","t","o","o","l">>
      [] s = InitialInstruction ->
         <<
            "P","e","r","f","o","r","m"," ","i","n","i","t","i","a","l"," ",
            "n","m","a","p"," ","s","c","a","n"," ","w","i","t","h"," ","s",
            "e","r","v","i","c","e"," ","v","e","r","s","i","o","n"," ","d",
            "e","t","e","c","t","i","o","n"," ","a","n","d"," ","d","e","f",
            "a","u","l","t"," ","s","c","r","i","p","t","s"
         >>

KnownStrings ==
    {"", "ftp", "flag.txt", "FLAG.TXT", "open", "none", "ftp:21", "FTP:21", "smb:445",
     "file:flag.txt", "cat", "read", "nmap", "initial", "scan", "gobuster", "whatweb", "nikto", "enum4linux", "smbclient", "searchsploit",
     "nc", "netcat", "get", "ls", "get flag.txt", "GET notes.txt", "notes.txt", "unknown", "-sV", "anonymous", "10.10.10.5", "10.129.14.7",
     InitialInstruction}
    \cup
    {"/tcp", "/udp", "21/tcp open ftp",
     "22/tcp open ssh", "53/udp open domain", "21/tcp open ftp\n21/tcp open ftp",
     "PORT STATE SERVICE\n21/tcp open ftp\n 22/tcp open ssh ", "21/tcp closed ftp", "Execute ",
     " for ", ". ", "None",
     "hydra", "http:80", "Download visible files from FTP",
     "Read downloaded file contents", "Use this tool", "Download files from FTP (corrected from invalid enum4linux suggestion)",
     "Locate hidden directories", "Error in execution", "Error: Unknown tool",
     "Error executing", "Execute ftp for ftp:21. Download visible files from FTP", "Execute cat for file:flag.txt. Read downloaded file contents",
     "Execute nmap for None. Use this tool", "Execute None for None. Use this tool", "Execute hydra for None. ",
     "Execute ftp for FTP:21. Download files from FTP (corrected from invalid enum4linux suggestion)", "Execute smbclient for smb:445. Use this tool", "Execute gobuster for http:80. Locate hidden directories"}
    \cup
    {"Error: ",
     "Connection refused",
     "No such file or directory",
     "Timeout: command exceeded 5 minutes",
     "Error: Connection refused",
     "Error: No such file or directory",
     "Error: Timeout: command exceeded 5 minutes"}
    \cup
    {"complete", "Execute complete for None. Use this tool"}
\* the str with these characters
NameOf(cs) == CHOOSE n \in KnownStrings : Chars(n) = cs

\* sub in s
StrIn(sub, s) == ContainsSeq(Chars(s), Chars(sub))
\* sub in s.lower()
StrInLower(sub, s) == ContainsSeq(Lower(Chars(s)), Chars(sub))

\* Reply texts: sequences of tokens. A member token stands for one key-value
\* pair of a JSON object together with its separator; the other tokens are an
\* opening brace, a closing brace, a markdown fence of three backticks, the
\* word json, a run of prose without braces or backticks, and a run of
\* whitespace.
Tok(k, v) == [k |-> k, v |-> v]
LB    == Tok("{", "")
RB    == Tok("}", "")
FENCE == Tok("fence", "")
JSONW == Tok("json", "")
PROSE == Tok("prose", "")
WS    == Tok("ws", "")
Structural == {LB, RB, FENCE, JSONW, PROSE, WS}
IsMember(t) == t \notin Structural

RECURSIVE SeqsUpTo(_, _)
SeqsUpTo(S, n) ==
    IF n = 0 THEN {<<>>}
    ELSE LET shorter == SeqsUpTo(S, n - 1)
         IN  shorter \cup {Append(s, t) : s \in {u \in shorter : Len(u) = n - 1}, t \in S}

\* str.find / str.rfind of a one-token needle: 0-based index, -1 when absent
Find(s, t) ==
    IF \E i \in 1..Len(s) : s[i] = t
    THEN (CHOOSE i \in 1..Len(s) : s[i] = t /\ \A j \in 1..(i - 1) : s[j] # t) - 1
    ELSE -1
RFind(s, t) ==
    IF \E i \in 1..Len(s) : s[i] = t
    THEN (CHOOSE i \in 1..Len(s) : s[i] = t /\ \A j \in (i + 1)..Len(s) : s[j] # t) - 1
    ELSE -1

\* s[a:b] for 0 <= a, 0 <= b
Slice(s, a, b) == SubSeq(s, a + 1, IF b > Len(s) THEN Len(s) ELSE b)

\* 1-based place of the first occurrence of sep in s, 0 when absent
FirstOcc(s, sep) ==
    IF ContainsSeq(s, sep)
    THEN CHOOSE i \in 1..Len(s) :
            /\ i + Len(sep) - 1 <= Len(s)
            /\ SubSeq(s, i, i + Len(sep) - 1) = sep
            /\ \A j \in 1..(i - 1) : SubSeq(s, j, j + Len(sep) - 1) # sep
    ELSE 0

\* s.split(sep)[0]
SplitFirst(s, sep) ==
    IF FirstOcc(s, sep) = 0 THEN s ELSE SubSeq(s, 1, FirstOcc(s, sep) - 1)
\* s.split(sep)[1], for s that contains sep
SplitSecond(s, sep) ==
    SplitFirst(SubSeq(s, FirstOcc(s, sep) + Len(sep), Len(s)), sep)

\* str.strip()
RECURSIVE LStrip(_)
LStrip(s) == IF s # <<>> /\ Head(s) = WS THEN LStrip(Tail(s)) ELSE s
RECURSIVE RStrip(_)
RStrip(s) ==
    IF s # <<>> /\ s[Len(s)] = WS THEN RStrip(SubSeq(s, 1, Len(s) - 1)) ELSE s
Strip(s) == RStrip(LStrip(s))


(***************************************************************************)
(* Clean-and-parse of the strategist's reply (main.py:257-276).            *)
(***************************************************************************)
NoSpace(s) == SelectSeq(s, LAMBDA t : t # WS)

\* json.loads accepts s: an object of member tokens, whitespace anywhere
WellFormed(s) ==
    LET b == NoSpace(s)
    IN  /\ Len(b) >= 2
        /\ b[1] = LB
        /\ b[Len(b)] = RB
        /\ \A i \in 2..(Len(b) - 1) : IsMember(b[i])

\* the dict json.loads returns: the last pair of a repeated key wins
JsonObject(s) ==
    LET ms == SelectSeq(s, IsMember)
    IN  [key \in {ms[i].k : i \in 1..Len(ms)} |->
            ms[CHOOSE i \in 1..Len(ms) :
                  ms[i].k = key /\ \A j \in (i + 1)..Len(ms) : ms[j].k # key].v]

\* main.py:260-264
StripFences(c) ==
    IF ContainsSeq(c, <<FENCE, JSONW>>)
    THEN SplitFirst(SplitSecond(c, <<FENCE, JSONW>>), <<FENCE>>)
    ELSE IF ContainsSeq(c, <<FENCE>>)
         THEN SplitFirst(SplitSecond(c, <<FENCE>>), <<FENCE>>)
         ELSE c

NoJsonFound   == "ValueError: No JSON object found in response"
MissingField  == "ValueError: Missing required field: next_step"
MalformedJson == "JSONDecodeError"

\* ExtractAndDecode slicing content[start_idx:end_idx], the closing brace lost
ExtractAndDecode_EndExclusive(c) ==
    LET start_idx == Find(c, LB)
        end_idx   == RFind(c, RB)
    IN  IF start_idx = -1 \/ end_idx = -1
        THEN [exc |-> NoJsonFound, content |-> c, obj |-> <<>>]
        ELSE LET cut == Slice(c, start_idx, end_idx)
             IN  IF WellFormed(cut)
                 THEN [exc |-> "none", content |-> cut, obj |-> JsonObject(cut)]
                 ELSE [exc |-> MalformedJson, content |-> cut, obj |-> <<>>]

\* main.py:266-276 on the cleaned text c
ExtractAndDecode(c) ==
    LET start_idx == Find(c, LB)
        end_idx   == RFind(c, RB)
    IN  IF start_idx = -1 \/ end_idx = -1
        THEN [exc |-> NoJsonFound, content |-> c, obj |-> <<>>]
        ELSE LET cut == Slice(c, start_idx, end_idx + 1)
             IN  IF WellFormed(cut)
                 THEN [exc |-> "none", content |-> cut, obj |-> JsonObject(cut)]
                 ELSE [exc |-> MalformedJson, content |-> cut, obj |-> <<>>]

\* main.py:257-276
ParseContent(raw) == ExtractAndDecode(StripFences(Strip(raw)))

\* main.py:324-331: the retry's parse, None when nothing is returned
ParseRetry(raw) ==
    LET c         == Strip(raw)
        start_idx == Find(c, LB)
        end_idx   == RFind(c, RB)
    IN  IF start_idx # -1 /\ end_idx # -1
        THEN LET cut == Slice(c, start_idx, end_idx + 1)
             IN  IF WellFormed(cut)
                 THEN [returns |-> TRUE, content |-> cut, obj |-> JsonObject(cut)]
                 ELSE [returns |-> FALSE, content |-> cut, obj |-> <<>>]
        ELSE [returns |-> FALSE, content |-> c, obj |-> <<>>]

(***************************************************************************)
(* Decisions: a dict is a function from its keys to the names of its       *)
(* values. JsonNull names the JSON value null; JsonList gives the items of *)
(* the values that are lists, and any other value is not a list.           *)
(***************************************************************************)
JsonNull == "null"
IsStr(v) == v # JsonNull

SvcFtp == "21/tcp open ftp"
SvcSsh == "22/tcp open ssh"
ListFtpSsh == "[21/tcp open ftp, 22/tcp open ssh]"
ListSshSsh == "[22/tcp open ssh, 22/tcp open ssh]"
NotAList   == "5"
IsIterable(v) == v \in {ListFtpSsh, ListSshSsh}
JsonList(v) ==
    CASE v = ListFtpSsh -> <<SvcFtp, SvcSsh>>
      [] v = ListSshSsh -> <<SvcSsh, SvcSsh>>

InSeq(x, s) == \E i \in 1..Len(s) : s[i] = x

Get(d, key, default) == IF key \in DOMAIN d THEN d[key] ELSE default
Put(d, key, value) ==
    [k \in DOMAIN d \cup {key} |-> IF k = key THEN value ELSE d[k]]

CorrectedEnum4linux == "Download files from FTP (corrected from invalid enum4linux suggestion)"
CorrectedSmbclient  == "Download files from FTP (corrected from invalid smbclient suggestion)"

\* CorrectShareTool testing the target without lower()
CorrectShareTool_CaseSensitive(d, next_tool, tgt, share_tool, note) ==
    IF next_tool = share_tool /\ StrIn("ftp", tgt)
    THEN Put(Put(d, "next_step", "ftp"), "rationale", note)
    ELSE d

\* CorrectShareTool substituting the other share tool instead of ftp
CorrectShareTool_ToSmbclient(d, next_tool, tgt, share_tool, note) ==
    IF next_tool = share_tool /\ StrInLower("ftp", tgt)
    THEN Put(Put(d, "next_step", "smbclient"), "rationale", note)
    ELSE d

\* main.py:287-290 and 292-295: one check, for the share tool named
CorrectShareTool(d, next_tool, tgt, share_tool, note) ==
    IF next_tool = share_tool /\ StrInLower("ftp", tgt)
    THEN Put(Put(d, "next_step", "ftp"), "rationale", note)
    ELSE d

\* ValidateDecision without the test of the required field
ValidateDecision_NoFieldCheck(d) ==
    LET next_tool == Get(d, "next_step", "")
        tgt       == Get(d, "target", "")
    IN  IF next_tool \in {"enum4linux", "smbclient"} /\ ~IsStr(tgt)
        THEN [exc |-> "AttributeError", decision |-> d]
        ELSE [exc |-> "none",
              decision |->
                CorrectShareTool(
                  CorrectShareTool(d, next_tool, tgt, "enum4linux", CorrectedEnum4linux),
                  next_tool, tgt, "smbclient", CorrectedSmbclient)]

\* main.py:278-295: the required field, then the tool-service correction
ValidateDecision(d) ==
    IF "next_step" \notin DOMAIN d
    THEN [exc |-> MissingField, decision |-> d]
    ELSE LET next_tool == Get(d, "next_step", "")
             tgt       == Get(d, "target", "")
         IN  IF next_tool \in {"enum4linux", "smbclient"} /\ ~IsStr(tgt)
             THEN [exc |-> "AttributeError", decision |-> d]
             ELSE [exc |-> "none",
                   decision |->
                     CorrectShareTool(
                       CorrectShareTool(d, next_tool, tgt, "enum4linux", CorrectedEnum4linux),
                       next_tool, tgt, "smbclient", CorrectedSmbclient)]

\* MergeServices inserting each new service at the front
RECURSIVE MergeServices_Prepend(_, _)
MergeServices_Prepend(services, new) ==
    IF new = <<>> THEN services
    ELSE MergeServices_Prepend(
            IF InSeq(Head(new), services) THEN services ELSE <<Head(new)>> \o services,
            Tail(new))

\* main.py:299-301
RECURSIVE MergeServices(_, _)
MergeServices(services, new) ==
    IF new = <<>> THEN services
    ELSE MergeServices(
            IF InSeq(Head(new), services) THEN services ELSE Append(services, Head(new)),
            Tail(new))

(***************************************************************************)
(* Fallback Policy (main.py:365-405).                                      *)
(***************************************************************************)
\* the four decisions of the table
FallbackFtp ==
    [understanding |-> "Fallback: FTP files detected",
     next_step |-> "ftp",
     rationale |-> "Download visible files from FTP",
     target |-> "ftp:21",
     status |-> "continue"]
FallbackCat ==
    [understanding |-> "Fallback: Files downloaded",
     next_step |-> "cat",
     rationale |-> "Read downloaded file contents",
     target |-> "file:flag.txt",
     status |-> "continue"]
FallbackComplete ==
    [understanding |-> "Fallback: File contents read",
     next_step |-> "complete",
     rationale |-> "Enumeration complete",
     target |-> "none",
     status |-> "complete"]
FallbackError ==
    [understanding |-> "Fallback: Unable to determine next step",
     next_step |-> "error",
     rationale |-> "Reasoning failed",
     target |-> "none",
     status |-> "error"]

\* the table with a default decision that carries no status
FallbackDecision_DefaultWithoutStatus(last_tool, last_output, files) ==
    IF last_tool = "nmap" /\ StrInLower("flag.txt", last_output) THEN FallbackFtp
    ELSE IF last_tool = "ftp" /\ InSeq("flag.txt", files) THEN FallbackCat
    ELSE IF last_tool = "cat" THEN FallbackComplete
    ELSE [understanding |-> "Fallback: Unable to determine next step",
          next_step |-> "error",
          rationale |-> "Reasoning failed",
          target |-> "none"]

\* the table with rule 2 not looking at downloaded_files
FallbackDecision_FtpAlwaysCat(last_tool, last_output, files) ==
    IF last_tool = "nmap" /\ StrInLower("flag.txt", last_output) THEN FallbackFtp
    ELSE IF last_tool = "ftp" THEN FallbackCat
    ELSE IF last_tool = "cat" THEN FallbackComplete
    ELSE FallbackError

\* main.py:365-405
_create_fallback_decision(last_tool, last_output, files) ==
    IF last_tool = "nmap" /\ StrInLower("flag.txt", last_output) THEN FallbackFtp
    ELSE IF last_tool = "ftp" /\ InSeq("flag.txt", files) THEN FallbackCat
    ELSE IF last_tool = "cat" THEN FallbackComplete
    ELSE FallbackError

(***************************************************************************)
(* The decision source: what ollama.chat does when the strategist is       *)
(* called. It raises, or returns a message whose content is None or a      *)
(* text.                                                                   *)
(***************************************************************************)
Absent == "<absent>"
Opt(key, v) == IF v = Absent THEN <<>> ELSE <<Tok(key, v)>>

NextSteps       == {Absent, "nmap", "enum4linux", "smbclient"}
DecisionTargets == {Absent, "FTP:21", "smb:445"}
ServiceLists    == {Absent, ListFtpSsh}

DecisionBodies ==
    {Opt("next_step", ns) \o Opt("target", t) \o Opt("discovered_services", l)
        \o <<Tok("rationale", "Use this tool"), Tok("status", "continue")>> :
        ns \in NextSteps, t \in DecisionTargets, l \in ServiceLists}
    \cup
    {<<Tok("next_step", "enum4linux"), Tok("target", JsonNull), Tok("status", "continue")>>,
     <<Tok("next_step", "nmap"), Tok("discovered_services", NotAList), Tok("status", "continue")>>,
     <<Tok("next_step", "nmap"), Tok("discovered_services", ListSshSsh), Tok("status", "continue")>>,
     <<Tok("next_step", "smbclient"), Tok("target", "ftp:21"), Tok("status", "continue")>>,
     <<Tok("next_step", "complete"), Tok("status", "complete")>>,
     <<Tok("next_step", "hydra"), Tok("status", "continue")>>}

Bare(b)    == <<LB>> \o b \o <<RB>>
Fenced(b)  == <<PROSE, WS, FENCE, JSONW, WS, LB>> \o b \o <<RB, WS, FENCE>>
Garbled(b) == <<LB>> \o b \o <<PROSE, RB>>

StrategistReplies ==
    {Bare(b) : b \in DecisionBodies}
    \cup {Fenced(b) : b \in DecisionBodies}
    \cup {Garbled(b) : b \in DecisionBodies}
    \cup {<<>>, <<PROSE>>, <<LB, Tok("next_step", "nmap")>>, <<RB, PROSE, LB>>}

ChatExceptions == {"JSONDecodeError", "ResponseError"}

Unbound     == [state |-> "unbound", text |-> <<>>]
NoneContent == [state |-> "None", text |-> <<>>]
StrContent(t) == [state |-> "str", text |-> t]

ChatContents == {NoneContent} \cup {StrContent(t) : t \in StrategistReplies}

\* an entry of a conversation history: its role, what it is, and for a
\* reply of the strategist the content received
Msg(role, kind) == [role |-> role, kind |-> kind, content |-> Unbound]
ReplyMsg(c) == [role |-> "assistant", kind |-> "reply", content |-> c]

\* which except clause of main.py:305 / main.py:339 takes the exception
Handler(e) == IF e = "JSONDecodeError" THEN "except_JSONDecodeError" ELSE "except_Exception"

(***************************************************************************)
(* reasoning_agent_analyze (main.py:200-341), step by step.                *)
(***************************************************************************)
\* main.py:212-249, ollama.chat raises
AnalyzeChatRaises ==
    /\ rpc = "call"
    /\ \E e \in ChatExceptions :
        /\ exc' = e
        /\ rpc' = Handler(e)
    /\ reasoning_history' = Append(reasoning_history, Msg("user", "prompt"))
    /\ UNCHANGED <<executor_history, discovered_services, completed_actions,
                   downloaded_files, runv, tool_used, execution_result, content,
                   decision, returned, path>>

\* main.py:212-255, ollama.chat returns a message
AnalyzeChatReturns ==
    /\ rpc = "call"
    /\ \E c \in ChatContents :
        /\ content' = c
        /\ reasoning_history' =
              reasoning_history \o <<Msg("user", "prompt"), ReplyMsg(c)>>
    /\ rpc' = "parse"
    /\ UNCHANGED <<executor_history, discovered_services, completed_actions,
                   downloaded_files, runv, tool_used, execution_result,
                   decision, exc, returned, path>>

\* main.py:257-276
AnalyzeParse ==
    /\ rpc = "parse"
    /\ IF content.state # "str"
       THEN /\ exc' = "AttributeError"
            /\ rpc' = Handler("AttributeError")
            /\ UNCHANGED <<content, decision>>
       ELSE LET r == ParseContent(content.text)
            IN  /\ content' = StrContent(r.content)
                /\ exc' = r.exc
                /\ IF r.exc = "none"
                   THEN decision' = r.obj /\ rpc' = "validate"
                   ELSE UNCHANGED decision /\ rpc' = Handler(r.exc)
    /\ UNCHANGED <<agent, runv, tool_used, execution_result, returned, path>>

\* main.py:278-295
AnalyzeValidate ==
    /\ rpc = "validate"
    /\ LET r == ValidateDecision(decision)
       IN  /\ decision' = r.decision
           /\ exc' = r.exc
           /\ rpc' = IF r.exc = "none" THEN "merge" ELSE Handler(r.exc)
    /\ UNCHANGED <<agent, runv, tool_used, execution_result, content, returned, path>>

\* main.py:297-303
AnalyzeMerge ==
    /\ rpc = "merge"
    /\ IF "discovered_services" \in DOMAIN decision
       THEN IF IsIterable(decision["discovered_services"])
            THEN /\ discovered_services' =
                       MergeServices(discovered_services,
                                     JsonList(decision["discovered_services"]))
                 /\ returned' = decision /\ path' = "first" /\ rpc' = "returned"
                 /\ UNCHANGED exc
            ELSE /\ exc' = "TypeError"
                 /\ rpc' = Handler("TypeError")
                 /\ UNCHANGED <<discovered_services, returned, path>>
       ELSE /\ returned' = decision /\ path' = "first" /\ rpc' = "returned"
            /\ UNCHANGED <<discovered_services, exc>>
    /\ UNCHANGED <<reasoning_history, executor_history, completed_actions,
                   downloaded_files, runv, tool_used, execution_result, content,
                   decision>>

\* main.py:305-307 with content never assigned: the print raises
AnalyzeRetryUnbound ==
    /\ rpc = "except_JSONDecodeError"
    /\ content.state = "unbound"
    /\ exc' = "UnboundLocalError"
    /\ rpc' = "raised"
    /\ UNCHANGED <<agent, runv, tool_used, execution_result, content, decision,
                   returned, path>>

\* main.py:305-333, the retry call raises or returns a message without text
AnalyzeRetryFails ==
    /\ rpc = "except_JSONDecodeError"
    /\ content.state # "unbound"
    /\ reasoning_history' = Append(reasoning_history, Msg("user", "retry"))
    /\ rpc' = "fallback"
    /\ UNCHANGED <<executor_history, discovered_services, completed_actions,
                   downloaded_files, runv, tool_used, execution_result, content,
                   decision, exc, returned, path>>

\* main.py:305-333, the retry call returns a text
AnalyzeRetryReturns ==
    /\ rpc = "except_JSONDecodeError"
    /\ content.state # "unbound"
    /\ reasoning_history' = Append(reasoning_history, Msg("user", "retry"))
    /\ \E t \in StrategistReplies :
        LET r == ParseRetry(t)
        IN  /\ content' = StrContent(r.content)
            /\ IF r.returns
               THEN /\ decision' = r.obj /\ returned' = r.obj
                    /\ path' = "retry" /\ rpc' = "returned"
               ELSE /\ rpc' = "fallback"
                    /\ UNCHANGED <<decision, returned, path>>
    /\ UNCHANGED <<executor_history, discovered_services, completed_actions,
                   downloaded_files, runv, tool_used, execution_result, exc>>

\* main.py:335-337 and 339-341
AnalyzeFallback ==
    /\ rpc \in {"fallback", "except_Exception"}
    /\ returned' = _create_fallback_decision(tool_used, execution_result, downloaded_files)
    /\ path' = "fallback"
    /\ rpc' = "returned"
    /\ UNCHANGED <<agent, runv, tool_used, execution_result, content, decision, exc>>


(***************************************************************************)
(* Executor Translator (main.py:131-198, 435-475).                         *)
(***************************************************************************)
ToolVocabulary ==
    {"nmap", "ftp", "cat", "gobuster", "whatweb", "nikto", "enum4linux",
     "smbclient", "searchsploit", "nc"}

\* An element of an argument list: a str, given by its parts (an f-string
\* has two), or a nested list of strs.
Arg(s)        == [list |-> FALSE, parts |-> <<s>>, items |-> <<>>]
ArgF(pre, s)  == [list |-> FALSE, parts |-> <<pre, s>>, items |-> <<>>]
ArgList(cmds) == [list |-> TRUE, parts |-> <<>>, items |-> cmds]

\* main.py:435-459
_infer_tool_from_instruction(instr) ==
    LET has(w) == StrInLower(w, instr)
    IN  IF has("cat") \/ has("read") THEN "cat"
        ELSE IF has("nmap") \/ has("initial") \/ has("scan") THEN "nmap"
        ELSE IF has("ftp") THEN "ftp"
        ELSE IF has("gobuster") THEN "gobuster"
        ELSE IF has("whatweb") THEN "whatweb"
        ELSE IF has("nikto") THEN "nikto"
        ELSE IF has("enum4linux") THEN "enum4linux"
        ELSE IF has("smbclient") THEN "smbclient"
        ELSE IF has("searchsploit") THEN "searchsploit"
        ELSE IF has("nc") \/ has("netcat") THEN "nc"
        ELSE "nmap"

\* main.py:461-475
_get_default_args(tool, tgt) ==
    CASE tool = "nmap"         -> <<Arg("-sV"), Arg("-sC"), Arg("-T4"), Arg(tgt)>>
      [] tool = "ftp"          -> <<Arg(tgt), ArgList(<<"ls">>), Arg("anonymous"), Arg("anonymous")>>
      [] tool = "cat"          -> <<Arg("flag.txt")>>
      [] tool = "gobuster"     -> <<Arg("dir"), Arg("-u"), ArgF("http://", tgt), Arg("-w"),
                                    Arg("/usr/share/wordlists/dirb/common.txt"),
                                    Arg("-t"), Arg("50")>>
      [] tool = "whatweb"      -> <<Arg("-a"), Arg("3"), ArgF("http://", tgt)>>
      [] tool = "nikto"        -> <<Arg("-h"), Arg(tgt)>>
      [] tool = "enum4linux"   -> <<Arg("-a"), Arg(tgt)>>
      [] tool = "smbclient"    -> <<Arg("-L"), ArgF("//", tgt), Arg("-N")>>
      [] tool = "searchsploit" -> <<Arg(tgt)>>
      [] tool = "nc"           -> <<Arg("-nv"), Arg(tgt), Arg("80")>>
      [] OTHER                 -> <<Arg(tgt)>>

\* What ollama.chat does when the executor is called: it raises, returns a
\* message without tool calls, a tool call whose payload lacks a field, or a
\* tool call with a name and an args list.
ToolCallNames == ToolVocabulary \cup {"ssh", "error", ""}
ToolCallArgs(tgt) ==
    {<<>>,
     <<Arg("-sV"), Arg(tgt)>>,
     <<Arg(tgt), ArgList(<<"get flag.txt">>), Arg("anonymous"), Arg("anonymous")>>}
ExecutorResponses(tgt) ==
    {[kind |-> k, name |-> "", args |-> <<>>] : k \in {"raise", "no_call", "bad_call"}}
    \cup {[kind |-> "tool_call", name |-> n, args |-> a] :
             n \in ToolCallNames, a \in ToolCallArgs(tgt)}

\* executor_agent_execute whose except branch passes the target alone
executor_agent_execute_ErrorTargetOnly(instr, tgt, response) ==
    IF response.kind = "tool_call"
    THEN [tool |-> response.name, args |-> response.args,
          explanation |-> "Function calling"]
    ELSE LET tool == _infer_tool_from_instruction(instr)
         IN  IF response.kind = "no_call"
             THEN [tool |-> tool, args |-> _get_default_args(tool, tgt),
                   explanation |-> "Fallback execution"]
             ELSE [tool |-> tool, args |-> <<Arg(tgt)>>,
                   explanation |-> "Error fallback"]

\* main.py:153-198: the plan returned for a response
executor_agent_execute(instr, tgt, response) ==
    IF response.kind = "tool_call"
    THEN [tool |-> response.name, args |-> response.args,
          explanation |-> "Function calling"]
    ELSE LET tool == _infer_tool_from_instruction(instr)
         IN  [tool |-> tool, args |-> _get_default_args(tool, tgt),
              explanation |-> IF response.kind = "no_call"
                              THEN "Fallback execution" ELSE "Error fallback"]

\* main.py:153-189: the exception raised inside the try block, "none" when
\* the block returns: ollama.chat raises, or a tool call lacks 'function',
\* 'name' or 'arguments'
ExecutorTryRaises(response) ==
    CASE response.kind = "raise"    -> "ResponseError"
      [] response.kind = "bad_call" -> "KeyError"
      [] OTHER                      -> "none"

\* an except clause that takes ResponseError only
ExceptExceptionTakes_ResponseErrorOnly(e) == e = "ResponseError"

\* main.py:191: the exceptions the clause except Exception takes
ExceptExceptionTakes(e) ==
    e \in {"ResponseError", "KeyError", "AttributeError", "TypeError", "ValueError"}

\* main.py:153-198: the exception that leaves executor_agent_execute
ExecutorEscapes(response) ==
    IF ExecutorTryRaises(response) # "none"
       /\ ~ExceptExceptionTakes(ExecutorTryRaises(response))
    THEN ExecutorTryRaises(response)
    ELSE "none"

\* main.py:148-151 and 171-175: what the call appends to executor_history
ExecutorHistoryAfter(history, response) ==
    IF response.kind = "tool_call"
    THEN history \o <<Msg("user", "prompt"), Msg("assistant", "tool_calls")>>
    ELSE Append(history, Msg("user", "prompt"))

(***************************************************************************)
(* execute_tool (main.py:477-510) over PentestingTools (tools.py:6-161).   *)
(***************************************************************************)
\* the attributes of a PentestingTools object (tools.py:10-163)
PentestingToolsMethods ==
    {"run_command", "nmap", "gobuster", "whatweb", "nikto", "enum4linux",
     "smbclient", "ftp", "ssh", "hydra", "searchsploit", "nc", "get_tool_definitions"}

\* the names main.py:479-490 looks up on self.tools, one per key of tool_map
ToolMapEntries ==
    {"nmap", "ftp", "cat", "gobuster", "whatweb", "nikto", "enum4linux",
     "smbclient", "searchsploit", "nc"}

\* main.py:479-490: building the dict raises AttributeError when self.tools
\* lacks one of the attributes
ToolMapRaises == \E name \in ToolMapEntries : name \notin PentestingToolsMethods

\* str.split() on characters
RECURSIVE Words(_)
Words(cs) ==
    IF cs = <<>> THEN <<>>
    ELSE IF Head(cs) = " " THEN Words(Tail(cs))
    ELSE LET n == IF \E i \in 1..Len(cs) : cs[i] = " "
                  THEN CHOOSE i \in 1..Len(cs) :
                          cs[i] = " " /\ \A j \in 1..(i - 1) : cs[j] # " "
                  ELSE Len(cs) + 1
         IN  <<SubSeq(cs, 1, n - 1)>> \o Words(SubSeq(cs, n, Len(cs)))

\* main.py:503-506 for the commands of one nested list
RECURSIVE TrackCommands(_, _)
TrackCommands(files, cmds) ==
    IF cmds = <<>> THEN files
    ELSE LET cmd      == Head(cmds)
             ws       == Words(Chars(cmd))
             filename == IF Len(ws) > 1 THEN NameOf(ws[Len(ws)]) ELSE "unknown"
         IN  TrackCommands(
                IF StrInLower("get", cmd) /\ ~InSeq(filename, files)
                THEN Append(files, filename) ELSE files,
                Tail(cmds))

\* main.py:500-506
RECURSIVE TrackArguments(_, _)
TrackArguments(files, arguments) ==
    IF arguments = <<>> THEN files
    ELSE TrackArguments(
            IF Head(arguments).list
            THEN TrackCommands(files, Head(arguments).items) ELSE files,
            Tail(arguments))

\* "get" in str(arguments).lower()
MentionsGet(arguments) ==
    \E i \in 1..Len(arguments) :
        \/ \E j \in 1..Len(arguments[i].parts) : StrInLower("get", arguments[i].parts[j])
        \/ \E j \in 1..Len(arguments[i].items) : StrInLower("get", arguments[i].items[j])

\* texts of a scan: port lines, one of them twice, a header, padded lines
ScanResults ==
    {"21/tcp open ftp",
     "21/tcp open ftp\n21/tcp open ftp",
     "PORT STATE SERVICE\n21/tcp open ftp\n 22/tcp open ssh ",
     "21/tcp closed ftp",
     "53/udp open domain"}

\* What the external process does: it exits with a code, having written its
\* output or an error, it never exits, or it cannot be started.
Processes ==
    {[kind |-> "exits", code |-> 0, output |-> t, error |-> ""] :
        t \in {"open", "flag.txt", "FLAG.TXT"} \cup ScanResults}
    \cup {[kind |-> "exits", code |-> 1, output |-> "", error |-> "Connection refused"],
          [kind |-> "never_exits", code |-> 0, output |-> "", error |-> ""],
          [kind |-> "cannot_start", code |-> 0, output |-> "",
           error |-> "No such file or directory"]}

\* run_command with the timeout of subprocess.run in the streaming mode too
run_command_StreamingTimesOut(process, stream_output) ==
    CASE process.kind = "cannot_start" ->
            [returns |-> TRUE, success |-> FALSE, output |-> "", error |-> process.error]
      [] process.kind = "never_exits" ->
            [returns |-> TRUE, success |-> FALSE, output |-> "",
             error |-> "Timeout: command exceeded 5 minutes"]
      [] OTHER ->
            [returns |-> TRUE, success |-> process.code = 0,
             output |-> process.output, error |-> process.error]

\* tools.py:10-84: the dict returned; returns is FALSE when the call never
\* returns: in the streaming mode (tools.py:24-43) stdout is read to its end
\* and process.wait() has no timeout, only subprocess.run (tools.py:61-66)
\* has one
run_command(process, stream_output) ==
    CASE process.kind = "cannot_start" ->
            [returns |-> TRUE, success |-> FALSE, output |-> "", error |-> process.error]
      [] process.kind = "never_exits" ->
            IF stream_output
            THEN [returns |-> FALSE, success |-> FALSE, output |-> "", error |-> ""]
            ELSE [returns |-> TRUE, success |-> FALSE, output |-> "",
                  error |-> "Timeout: command exceeded 5 minutes"]
      [] OTHER ->
            [returns |-> TRUE, success |-> process.code = 0,
             output |-> process.output, error |-> process.error]

\* tools.py:91: f"Error: {result['error']}"
ErrorResult(error) == NameOf(Chars("Error: ") \o Chars(error))

\* tools.py:86-161, a wrapper past its print: run_command in the streaming
\* mode, then its output or the error text
WrapperOutcome(process) ==
    LET r == run_command(process, TRUE)
    IN  IF ~r.returns
        THEN [raises |-> FALSE, blocks |-> TRUE, text |-> ""]
        ELSE [raises |-> FALSE, blocks |-> FALSE,
              text |-> IF r.success THEN r.output ELSE ErrorResult(r.error)]

\* What the tool wrapper does when called: it raises, never returns, or
\* returns a text.
ToolOutcomes ==
    {[raises |-> TRUE, blocks |-> FALSE, text |-> ""]}
    \cup {WrapperOutcome(process) : process \in Processes}

\* a wrapper that joins nested lists too
WrapperRaises_Never(arguments) == FALSE

\* tools.py:88-89 (and the same lines of every wrapper): ' '.join(command)
\* raises TypeError when an argument is not a str
WrapperRaises(arguments) == \E i \in 1..Len(arguments) : arguments[i].list

\* main.py:492-510: execute_tool once tool_map is built
execute_tool_dispatch(tool_name, arguments, files, outcome) ==
    IF tool_name \notin ToolMapEntries
    THEN [raised |-> "none", blocks |-> FALSE, result |-> "Error: Unknown tool",
          files |-> files]
    ELSE IF WrapperRaises(arguments) \/ outcome.raises
    THEN [raised |-> "none", blocks |-> FALSE, result |-> "Error executing",
          files |-> files]
    ELSE IF outcome.blocks
    THEN [raised |-> "none", blocks |-> TRUE, result |-> "", files |-> files]
    ELSE [raised |-> "none", blocks |-> FALSE, result |-> outcome.text,
          files |-> IF tool_name = "ftp" /\ MentionsGet(arguments)
                    THEN TrackArguments(files, arguments) ELSE files]

\* main.py:477-510: raised is the exception that leaves execute_tool
execute_tool(tool_name, arguments, files, outcome) ==
    IF ToolMapRaises
    THEN [raised |-> "AttributeError", blocks |-> FALSE, result |-> "",
          files |-> files]
    ELSE execute_tool_dispatch(tool_name, arguments, files, outcome)

(***************************************************************************)
(* run (main.py:512-625).                                                  *)
(***************************************************************************)
max_iterations == 25

\* the targets main.py:637-640 lets through
RunTargets == {"10.10.10.5", "10.129.14.7"}

NoPlan == [tool |-> "", args |-> <<>>, explanation |-> ""]

\* main.py:540-549
RunInitialTranslate ==
    /\ pc = "start"
    /\ \E response \in ExecutorResponses(target) :
        /\ raised' = ExecutorEscapes(response)
        /\ IF ExecutorEscapes(response) = "none"
           THEN /\ execution' =
                      executor_agent_execute(InitialInstruction, target, response)
                /\ pc' = "initial_execute"
           ELSE /\ UNCHANGED execution
                /\ pc' = "raised"
        /\ executor_history' = ExecutorHistoryAfter(executor_history, response)
    /\ instruction' = InitialInstruction
    /\ UNCHANGED <<reasoning_history, discovered_services, completed_actions,
                   downloaded_files, target, result, iteration, summary, roundv>>

\* main.py:551 with main.py:479-490: execute_tool is called and builds
\* tool_map; the exception of that leaves execute_tool and run
RunInitialExecute ==
    /\ pc = "initial_execute"
    /\ raised' = IF ToolMapRaises THEN "AttributeError" ELSE "none"
    /\ pc' = IF ToolMapRaises THEN "raised" ELSE "dispatch"
    /\ UNCHANGED <<agent, target, execution, result, iteration, summary,
                   instruction, roundv>>

\* main.py:492-510: execute_tool past tool_map, for the plan of iteration 0
\* (main.py:551) or of a later iteration (main.py:604); a wrapper that never
\* returns leaves run blocked in it
RunDispatch ==
    /\ pc = "dispatch"
    /\ \E outcome \in ToolOutcomes :
        LET r == execute_tool_dispatch(execution.tool, execution.args,
                                       downloaded_files, outcome)
        IN  /\ downloaded_files' = r.files
            /\ IF r.blocks
               THEN pc' = "blocked" /\ UNCHANGED result
               ELSE /\ result' = r.result
                    /\ pc' = IF iteration = 0 THEN "record" ELSE "executed"
    /\ UNCHANGED <<reasoning_history, executor_history, discovered_services,
                   completed_actions, target, execution, raised, iteration,
                   summary, instruction, roundv>>

\* str.split('\n') on characters
RECURSIVE Lines(_)
Lines(cs) ==
    IF \E i \in 1..Len(cs) : cs[i] = "\n"
    THEN LET n == CHOOSE i \in 1..Len(cs) :
                     cs[i] = "\n" /\ \A j \in 1..(i - 1) : cs[j] # "\n"
         IN  <<SubSeq(cs, 1, n - 1)>> \o Lines(SubSeq(cs, n + 1, Len(cs)))
    ELSE <<cs>>

\* str.strip() on characters
RECURSIVE StripChars(_)
StripChars(cs) ==
    IF cs # <<>> /\ Head(cs) = " " THEN StripChars(Tail(cs))
    ELSE IF cs # <<>> /\ cs[Len(cs)] = " " THEN StripChars(SubSeq(cs, 1, Len(cs) - 1))
    ELSE cs

\* main.py:561-563 for the lines given
RECURSIVE AppendPortLines(_, _)
AppendPortLines(services, lines) ==
    IF lines = <<>> THEN services
    ELSE AppendPortLines(
            IF \/ ContainsSeq(Head(lines), Chars("/tcp"))
               \/ ContainsSeq(Head(lines), Chars("/udp"))
            THEN Append(services, NameOf(StripChars(Head(lines))))
            ELSE services,
            Tail(lines))

\* main.py:559-563
ParseServices(services, res) ==
    IF StrInLower("open", res)
    THEN AppendPortLines(services, Lines(Chars(res)))
    ELSE services

\* main.py:553-566: the record of iteration 0, the services of the scan, and
\* the loop entered
RunInitialRecord ==
    /\ pc = "record"
    /\ completed_actions' =
          Append(completed_actions,
                 [iteration |-> 0, tool |-> execution.tool, args |-> execution.args])
    /\ discovered_services' = ParseServices(discovered_services, result)
    /\ iteration' = 1
    /\ pc' = "round"
    /\ UNCHANGED <<reasoning_history, executor_history, downloaded_files, target,
                   execution, raised, result, summary, instruction, roundv>>

\* str(v) inside an f-string, None for a missing or null field
PyNone == "None"
PyStr(v) == IF v = JsonNull THEN PyNone ELSE v

\* main.py:594
FormatInstruction(d) ==
    NameOf(Chars("Execute ") \o Chars(PyStr(Get(d, "next_step", PyNone)))
           \o Chars(" for ") \o Chars(PyStr(Get(d, "target", PyNone)))
           \o Chars(". ") \o Chars(PyStr(Get(d, "rationale", ""))))

\* main.py:575-584: a terminal status ends the loop
RunDecisionTerminal ==
    /\ pc = "decided"
    /\ Get(returned, "status", PyNone) \in {"complete", "error"}
    /\ pc' = IF Get(returned, "status", PyNone) = "complete" THEN "COMPLETE" ELSE "ERROR"
    /\ UNCHANGED <<agent, target, execution, raised, result, iteration, summary,
                   instruction, roundv>>

\* main.py:586-594: the decision is printed, slicing understanding and
\* rationale (TypeError when one is null), and the instruction is formed
RunDecisionContinues ==
    /\ pc = "decided"
    /\ Get(returned, "status", PyNone) \notin {"complete", "error"}
    /\ IF \/ Get(returned, "understanding", "N/A") = JsonNull
          \/ Get(returned, "rationale", "N/A") = JsonNull
       THEN /\ raised' = "TypeError"
            /\ pc' = "raised"
            /\ UNCHANGED instruction
       ELSE /\ instruction' = FormatInstruction(returned)
            /\ pc' = "translate"
            /\ UNCHANGED raised
    /\ UNCHANGED <<agent, target, execution, result, iteration, summary, roundv>>

\* main.py:595-601
RunTranslate ==
    /\ pc = "translate"
    /\ \E response \in ExecutorResponses(target) :
        /\ raised' = ExecutorEscapes(response)
        /\ IF ExecutorEscapes(response) = "none"
           THEN /\ execution' = executor_agent_execute(instruction, target, response)
                /\ pc' = "execute"
           ELSE /\ UNCHANGED execution
                /\ pc' = "raised"
        /\ executor_history' = ExecutorHistoryAfter(executor_history, response)
    /\ UNCHANGED <<reasoning_history, discovered_services, completed_actions,
                   downloaded_files, target, result, iteration, summary,
                   instruction, roundv>>

\* a test that no tool name passes
Truthy_NoTool(tool) == FALSE

\* bool(tool)
Truthy(tool) == tool \notin {"", PyNone}

\* main.py:566 and 615-616: the next value of the loop variable, or the else
\* clause of the for statement
LoopAdvance ==
    IF iteration < max_iterations
    THEN iteration' = iteration + 1 /\ pc' = "round"
    ELSE UNCHANGED iteration /\ pc' = "EXHAUSTED"

\* main.py:603-604 with main.py:479-490: execute_tool is called and builds
\* tool_map
RunExecuteTool ==
    /\ pc = "execute"
    /\ Truthy(execution.tool) /\ execution.tool # "error"
    /\ raised' = IF ToolMapRaises THEN "AttributeError" ELSE "none"
    /\ pc' = IF ToolMapRaises THEN "raised" ELSE "dispatch"
    /\ UNCHANGED <<agent, target, execution, result, iteration, summary,
                   instruction, roundv>>

\* main.py:606-610, then the loop goes on
RunRecordExecution ==
    /\ pc = "executed"
    /\ completed_actions' =
          Append(completed_actions,
                 [iteration |-> iteration, tool |-> execution.tool,
                  args |-> execution.args])
    /\ LoopAdvance
    /\ UNCHANGED <<reasoning_history, executor_history, discovered_services,
                   downloaded_files, target, execution, raised, result, summary,
                   instruction, roundv>>

\* main.py:611-613: no tool, or the tool named error: nothing is executed
RunSkipExecution ==
    /\ pc = "execute"
    /\ ~(Truthy(execution.tool) /\ execution.tool # "error")
    /\ result' = "Error in execution"
    /\ LoopAdvance
    /\ UNCHANGED <<agent, target, execution, raised, summary, instruction, roundv>>

\* main.py:618-625
RunSummary ==
    /\ pc \in {"COMPLETE", "ERROR", "EXHAUSTED"}
    /\ summary' = <<Len(completed_actions), Len(discovered_services),
                    Len(downloaded_files)>>
    /\ pc' = "done"
    /\ UNCHANGED <<agent, target, execution, raised, result, iteration,
                   instruction, roundv>>

(***************************************************************************)
(* Specifications.                                                         *)
(***************************************************************************)
\* the fields after HTBAgent() (main.py:30-37)
Constructed ==
    /\ reasoning_history = <<>>
    /\ executor_history = <<>>
    /\ discovered_services = <<>>
    /\ completed_actions = <<>>
    /\ downloaded_files = <<>>

\* the locals of run not yet assigned
NoLocals ==
    /\ execution = NoPlan /\ raised = "none" /\ result = "" /\ iteration = 0
    /\ summary = <<>> /\ instruction = ""

RunIdle ==
    /\ pc = "idle" /\ target = "" /\ NoLocals

RoundIdle ==
    /\ rpc = "idle" /\ tool_used = "" /\ execution_result = ""
    /\ content = Unbound /\ decision = <<>> /\ exc = "none"
    /\ returned = <<>> /\ path = "none"

\* main.py:642-647: agent.run(target) on a new agent
Init ==
    /\ Constructed
    /\ pc = "start" /\ target \in RunTargets /\ NoLocals
    /\ RoundIdle

Next == RunInitialTranslate \/ RunInitialExecute

Spec == Init /\ [][Next]_vars

\* a call reasoning_agent_analyze(execution_result, tool_used, iteration)
LastTools   == {"nmap", "ftp", "cat", "gobuster", "hydra", "None"}
LastOutputs == {"open", "flag.txt", "FLAG.TXT"}

InitRound ==
    /\ reasoning_history = <<>>
    /\ executor_history = <<>>
    /\ completed_actions = <<>>
    /\ discovered_services \in {<<>>, <<SvcFtp>>}
    /\ downloaded_files \in {<<>>, <<"flag.txt">>}
    /\ RunIdle
    /\ rpc = "call"
    /\ tool_used \in LastTools
    /\ execution_result \in LastOutputs
    /\ content = Unbound /\ decision = <<>> /\ exc = "none"
    /\ returned = <<>> /\ path = "none"

NextRound ==
    \/ AnalyzeChatRaises
    \/ AnalyzeChatReturns
    \/ AnalyzeParse
    \/ AnalyzeValidate
    \/ AnalyzeMerge
    \/ AnalyzeRetryUnbound
    \/ AnalyzeRetryFails
    \/ AnalyzeRetryReturns
    \/ AnalyzeFallback

SpecRound == InitRound /\ [][NextRound]_vars

\* the steps of run and of a decision round together
SpecAgent == (Init \/ InitRound) /\ [][Next \/ NextRound]_vars

\* Decisions a decision round hands to the loop: the four of the Fallback
\* Policy, validated ones, and ones of the retry path.
LoopDecisions ==
    {FallbackFtp, FallbackCat, FallbackComplete, FallbackError,
     [next_step |-> "nmap", rationale |-> "Use this tool", status |-> "continue"],
     [next_step |-> "nmap", rationale |-> "Use this tool"],
     [rationale |-> "Use this tool", status |-> "continue"],
     [next_step |-> "hydra", status |-> "continue"],
     [next_step |-> "ftp", target |-> "FTP:21", rationale |-> CorrectedEnum4linux,
      status |-> "continue"],
     [next_step |-> "smbclient", target |-> "smb:445",
      rationale |-> "Use this tool", status |-> "continue"],
     [next_step |-> "gobuster", target |-> "http:80",
      rationale |-> "Locate hidden directories", status |-> "continue"],
     [next_step |-> "nmap", understanding |-> JsonNull, status |-> "continue"],
     [next_step |-> "complete", status |-> "complete"],
     [next_step |-> "complete", rationale |-> "Use this tool", status |-> "continue"]}

\* run at main.py:553: the first plan made (main.py:540-549) and the first
\* tool dispatched (main.py:492-510)
InitRecord ==
    /\ reasoning_history = <<>>
    /\ discovered_services = <<>>
    /\ completed_actions = <<>>
    /\ pc = "record" /\ target \in RunTargets
    /\ raised = "none" /\ iteration = 0 /\ summary = <<>>
    /\ instruction = InitialInstruction
    /\ \E response \in ExecutorResponses(target) :
        /\ execution = executor_agent_execute(InitialInstruction, target, response)
        /\ executor_history = ExecutorHistoryAfter(<<>>, response)
    /\ \E outcome \in ToolOutcomes :
        LET r == execute_tool_dispatch(execution.tool, execution.args, <<>>, outcome)
        IN  ~r.blocks /\ result = r.result /\ downloaded_files = r.files
    /\ RoundIdle

\* execute_tool at main.py:492, tool_map built, called with the plan of
\* iteration 0 or of a later iteration
InitDispatch ==
    /\ reasoning_history = <<>>
    /\ discovered_services = <<>>
    /\ downloaded_files \in {<<>>, <<"flag.txt">>}
    /\ pc = "dispatch" /\ target \in RunTargets
    /\ raised = "none" /\ summary = <<>> /\ result = ""
    /\ iteration \in {0, 1, max_iterations}
    /\ instruction = InitialInstruction
    /\ \E response \in ExecutorResponses(target) :
        /\ execution = executor_agent_execute(InitialInstruction, target, response)
        /\ executor_history = ExecutorHistoryAfter(<<>>, response)
    /\ iteration > 0 => Truthy(execution.tool) /\ execution.tool # "error"
    /\ completed_actions =
          IF iteration = 0 THEN <<>>
          ELSE <<[iteration |-> 0, tool |-> "nmap",
                  args |-> _get_default_args("nmap", target)]>>
    /\ RoundIdle

\* run at main.py:575, in any iteration: a decision round has returned
InitDecided ==
    /\ reasoning_history = <<>>
    /\ executor_history = <<Msg("user", "prompt")>>
    /\ discovered_services \in {<<>>, <<SvcFtp>>}
    /\ downloaded_files = <<>>
    /\ pc = "decided" /\ target \in RunTargets
    /\ execution = executor_agent_execute(InitialInstruction, target,
                                          [kind |-> "no_call", name |-> "", args |-> <<>>])
    /\ completed_actions =
          <<[iteration |-> 0, tool |-> execution.tool, args |-> execution.args]>>
    /\ raised = "none" /\ summary = <<>>
    /\ instruction = InitialInstruction
    /\ result \in {"open", "21/tcp open ftp"}
    /\ iteration \in 1..max_iterations
    /\ rpc = "returned" /\ returned \in LoopDecisions
    /\ tool_used = execution.tool /\ execution_result = result
    /\ content = Unbound /\ decision = <<>> /\ exc = "none" /\ path = "none"

NextLoop ==
    \/ Next
    \/ RunInitialRecord
    \/ RunDecisionTerminal
    \/ RunDecisionContinues
    \/ RunTranslate
    \/ RunExecuteTool
    \/ RunDispatch
    \/ RunRecordExecution
    \/ RunSkipExecution
    \/ RunSummary

\* run from its start, from main.py:553 and from main.py:575, and with
\* execute_tool from main.py:492
SpecLoop == (Init \/ InitRecord \/ InitDecided \/ InitDispatch) /\ [][NextLoop]_vars

\* the clean-and-parse step on every text of at most MaxTextLen tokens
ParseAlphabet == {LB, RB, FENCE, JSONW, PROSE, WS, Tok("next_step", "nmap")}
Scenario4 ==
    <<PROSE, WS, FENCE, JSONW, WS, LB, Tok("next_step", "nmap"),
      Tok("status", "continue"), RB, WS, FENCE>>
ParseTexts == SeqsUpTo(ParseAlphabet, MaxTextLen) \cup {Scenario4}

InitParse ==
    /\ executor_history = <<>>
    /\ discovered_services = <<>>
    /\ completed_actions = <<>>
    /\ downloaded_files = <<>>
    /\ RunIdle
    /\ rpc = "parse"
    /\ tool_used = "nmap" /\ execution_result = "open"
    /\ content \in {StrContent(t) : t \in ParseTexts}
    /\ reasoning_history = <<Msg("user", "prompt"), ReplyMsg(content)>>
    /\ decision = <<>> /\ exc = "none" /\ returned = <<>> /\ path = "none"

SpecParse == InitParse /\ [][AnalyzeParse]_vars


(***************************************************************************)
(* Claims.                                                                 *)
(***************************************************************************)
IsPrefix(s, t) == Len(s) <= Len(t) /\ SubSeq(t, 1, Len(s)) = s

\* the terminal states of the loop (main.py:575-584, 615-616)
RunTerminal == pc \in {"COMPLETE", "ERROR", "EXHAUSTED"}

\* C1: run() never ends by an unhandled exception; in particular no call of
\* execute_tool, the construction of its tool table included, raises to run().
C1_RunNeverRaises == pc # "raised" /\ raised = "none"

\* C2: every run reaches one of the terminal states COMPLETE, ERROR or
\* EXHAUSTED: wherever run() can take no further step it is in one of them.
C2_RunStopsOnlyInTerminalState == (ENABLED Next) \/ RunTerminal

\* the retry prompts sent in this round (main.py:310-313)
RetryPrompts ==
    Cardinality({i \in 1..Len(reasoning_history) : reasoning_history[i].kind = "retry"})

\* the first reply was a text whose parse failed
ParseFailed == content.state = "str" /\ exc \in {NoJsonFound, MalformedJson}

\* C3: for every kind of parse failure of the strategist's reply (no JSON
\* object found as well as malformed JSON) exactly one retry prompt is sent,
\* and the Fallback Policy is invoked only after that retry has failed too.
C3_OneRetryForEveryParseFailure ==
    (rpc \in {"fallback", "returned"} /\ ParseFailed) => RetryPrompts = 1

\* the share-restricted tools and the file-transfer marker of a target
ShareTools == {"enum4linux", "smbclient"}
HasFtpMarker(d) ==
    /\ "target" \in DOMAIN d
    /\ IsStr(d["target"])
    /\ ContainsSeq(Lower(Chars(d["target"])), <<"f","t","p">>)
IllegalPair(d) ==
    "next_step" \in DOMAIN d /\ d["next_step"] \in ShareTools /\ HasFtpMarker(d)
ServicesMerged(d) ==
    ("discovered_services" \in DOMAIN d /\ IsIterable(d["discovered_services"]))
        => \A i \in 1..Len(JsonList(d["discovered_services"])) :
              InSeq(JsonList(d["discovered_services"])[i], discovered_services)

\* C4: every decision a decision round hands to the loop has been validated,
\* whichever path produced it: it has next_step, it is no pair (share tool,
\* target with the ftp marker), and its discovered_services are in the state.
C4_ReturnedDecisionValidated ==
    rpc = "returned" =>
        /\ "next_step" \in DOMAIN returned
        /\ ~IllegalPair(returned)
        /\ ServicesMerged(returned)

\* the object the first parse decoded, as received
Received == JsonObject(content.text)
CorrectionNotes == {CorrectedEnum4linux, CorrectedSmbclient}

\* C5: when validation has passed, a decision received as (share tool, target
\* with the ftp marker in any letter case) has next_step ftp and a rationale
\* stating the correction, its other fields as received; every other decision
\* is as received.
C5_ToolServiceCorrection ==
    rpc = "merge" =>
        IF IllegalPair(Received)
        THEN /\ decision["next_step"] = "ftp"
             /\ decision["rationale"] \in CorrectionNotes
             /\ DOMAIN decision = DOMAIN Received \cup {"rationale"}
             /\ \A k \in DOMAIN Received \ {"next_step", "rationale"} :
                   decision[k] = Received[k]
        ELSE decision = Received
C5_Witness ==
    /\ rpc = "merge"
    /\ Received["next_step"] = "smbclient"
    /\ Get(Received, "target", "") = "FTP:21"
    /\ decision["next_step"] = "ftp"
    /\ decision["rationale"] = CorrectedSmbclient

Statuses == {"continue", "complete", "error"}
AtFallback == rpc \in {"fallback", "except_Exception"}

\* C6: the Fallback Policy is total: from every last tool, output and
\* downloaded_files it returns a decision with next_step and a status in
\* {continue, complete, error}, and it leaves discovered_services,
\* completed_actions and downloaded_files as they are.
C6_FallbackTotal ==
    [][AtFallback =>
          /\ rpc' = "returned" /\ path' = "fallback"
          /\ "next_step" \in DOMAIN returned'
          /\ "status" \in DOMAIN returned'
          /\ returned'["status"] \in Statuses
          /\ UNCHANGED <<discovered_services, completed_actions, downloaded_files>>]_vars
C6_Witness ==
    /\ rpc = "returned" /\ path = "fallback"
    /\ tool_used = "None"
    /\ downloaded_files = <<"flag.txt">>
    /\ returned["next_step"] = "error" /\ returned["status"] = "error"

\* the table of the Fallback Policy, with the test of the output given
FallbackTable(output_has_marker) ==
    IF tool_used = "nmap" /\ output_has_marker
    THEN returned["next_step"] = "ftp" /\ returned["status"] = "continue"
    ELSE IF tool_used = "ftp" /\ InSeq("flag.txt", downloaded_files)
    THEN /\ returned["next_step"] = "cat"
         /\ returned["target"] = "file:flag.txt"
         /\ returned["status"] = "continue"
    ELSE IF tool_used = "cat"
    THEN returned["next_step"] = "complete" /\ returned["status"] = "complete"
    ELSE returned["next_step"] = "error" /\ returned["status"] = "error"

\* C7 as stated: rule (1) applies when the output contains 'flag.txt'.
C7_Original ==
    (rpc = "returned" /\ path = "fallback")
        => FallbackTable(ContainsSeq(Chars(execution_result), Chars("flag.txt")))

\* C7: the Fallback Policy is the ordered table (1) nmap and output containing
\* 'flag.txt' in any letter case: ftp, continue; (2) else ftp and 'flag.txt' in
\* downloaded_files: cat, file:flag.txt, continue; (3) else cat: complete,
\* complete; (4) otherwise error, error.
C7_FallbackTable ==
    (rpc = "returned" /\ path = "fallback")
        => FallbackTable(ContainsSeq(Lower(Chars(execution_result)), Chars("flag.txt")))
C7_Witness ==
    /\ rpc = "returned" /\ path = "fallback"
    /\ tool_used = "nmap" /\ execution_result = "FLAG.TXT"
    /\ returned["next_step"] = "ftp"

\* C8: discovered_services, completed_actions and downloaded_files only grow
\* by appending: every step keeps the old sequence as a prefix of the new.
C8_StateMonotonic ==
    [][/\ IsPrefix(discovered_services, discovered_services')
       /\ IsPrefix(completed_actions, completed_actions')
       /\ IsPrefix(downloaded_files, downloaded_files')]_vars
C8_Witness ==
    /\ rpc = "returned" /\ path = "first"
    /\ discovered_services = <<SvcFtp, SvcSsh>>
    /\ returned["discovered_services"] = ListFtpSsh

\* C9: a decision round never raises to run(), whatever the decision source
\* does.
C9_RoundNeverRaises == rpc # "raised"

\* the reply as received (main.py:251-255)
Reply == reasoning_history[2].content.text
Parsed == rpc # "parse"

\* the places of the well-formed JSON objects in a text
ObjectsIn(t) ==
    {ij \in (1..Len(t)) \X (1..Len(t)) :
        /\ ij[1] <= ij[2]
        /\ t[ij[1]] = LB /\ t[ij[2]] = RB
        /\ WellFormed(SubSeq(t, ij[1], ij[2]))}
TheObject(t) == CHOOSE ij \in ObjectsIn(t) : TRUE
ExtractedExactly(t) ==
    LET ij == TheObject(t)
    IN  /\ exc = "none"
        /\ rpc = "validate"
        /\ content.text = SubSeq(t, ij[1], ij[2])
        /\ decision = JsonObject(SubSeq(t, ij[1], ij[2]))

\* C10 as stated: every reply with a single well-formed JSON object anywhere
\* in it is parsed to exactly that object.
C10_Original ==
    (Parsed /\ Cardinality(ObjectsIn(Reply)) = 1) => ExtractedExactly(Reply)

\* the fence markers of a text
Fences(t) == {k \in 1..Len(t) : t[k] = FENCE}
JsonFences(t) == {k \in Fences(t) : k < Len(t) /\ t[k + 1] = JSONW}
Min(S) == CHOOSE x \in S : \A y \in S : x <= y
\* the segment the parser takes: the whole text when it has no fence marker,
\* else what follows the first fence-json marker when there is one, else the
\* first fence marker, up to the next fence marker
SegmentStart(t) ==
    IF Fences(t) = {} THEN 1
    ELSE IF JsonFences(t) # {} THEN Min(JsonFences(t)) + 2
    ELSE Min(Fences(t)) + 1
SegmentEnd(t) ==
    LET later == {k \in Fences(t) : k >= SegmentStart(t)}
    IN  IF later = {} THEN Len(t) ELSE Min(later) - 1
\* the object lies in the segment, with no opening brace before it and no
\* closing brace after it there
SpansSegmentBraces(t, ij) ==
    /\ SegmentStart(t) <= ij[1]
    /\ ij[2] <= SegmentEnd(t)
    /\ \A k \in SegmentStart(t)..(ij[1] - 1) : t[k] # LB
    /\ \A k \in (ij[2] + 1)..SegmentEnd(t) : t[k] # RB

C10_Scenario4 ==
    (Parsed /\ Reply = Scenario4) =>
        decision = [next_step |-> "nmap", status |-> "continue"]

\* C10: every reply with a single well-formed JSON object that lies in the
\* segment the parser takes (the first fenced segment when the reply has a
\* fence marker, else the whole reply), with no opening brace before it and no
\* closing brace after it in that segment, is parsed to exactly that object;
\* the reply prose + fenced json block with {next_step: nmap, status: continue}
\* parses to that decision.
C10_ExtractsTheObject ==
    /\ (/\ Parsed
        /\ Cardinality(ObjectsIn(Reply)) = 1
        /\ SpansSegmentBraces(Reply, TheObject(Reply)))
            => ExtractedExactly(Reply)
    /\ C10_Scenario4
\* the objects the amended claim leaves out are the ones the parser misses
C10_Tight ==
    (/\ Parsed
     /\ Cardinality(ObjectsIn(Reply)) = 1
     /\ ~SpansSegmentBraces(Reply, TheObject(Reply)))
        => ~ExtractedExactly(Reply)
C10_Witness ==
    /\ Parsed /\ Reply = Scenario4
    /\ content.text = <<LB, Tok("next_step", "nmap"), Tok("status", "continue"), RB>>
    /\ decision = [next_step |-> "nmap", status |-> "continue"]

\* a text without an opening brace followed, anywhere later, by a closing one
NoBracePair(t) ==
    ~\E i \in 1..Len(t) : \E j \in (i + 1)..Len(t) : t[i] = LB /\ t[j] = RB

\* C11: for every reply text with no opening-brace ... closing-brace pair (no
\* opening brace, no closing brace, or every closing brace before the first
\* opening one) the parser reports the no-JSON-found failure without decoding.
C11_NoBracePairIsNoJsonFound ==
    (Parsed /\ NoBracePair(Reply)) => (exc = NoJsonFound /\ rpc = "except_Exception")

\* C12: the validation step is idempotent: applied again to a decision it has
\* validated, with the state it produced, it passes, leaves the decision as
\* it is (no second correction) and adds nothing to discovered_services.
C12_ValidatorIdempotent ==
    (rpc = "returned" /\ path = "first") =>
        /\ ValidateDecision(returned) = [exc |-> "none", decision |-> returned]
        /\ "discovered_services" \in DOMAIN returned =>
              /\ IsIterable(returned["discovered_services"])
              /\ MergeServices(discovered_services,
                               JsonList(returned["discovered_services"]))
                    = discovered_services
C12_Witness ==
    /\ rpc = "returned" /\ path = "first"
    /\ returned["next_step"] = "ftp"
    /\ returned["rationale"] = CorrectedEnum4linux
    /\ Get(returned, "discovered_services", "") = ListFtpSsh
    /\ discovered_services = <<SvcFtp, SvcSsh>>

\* the positions of run at which executor_agent_execute is called
AtTranslate == pc \in {"start", "translate"}
PlanFields == {"tool", "args", "explanation"}

\* C13: the Executor Translator is total: for every instruction, target and
\* behaviour of the execution model (structured call, no call, malformed call
\* payload, exception) executor_agent_execute returns a plan with the fields
\* tool, args and explanation, and no exception leaves it.
C13_TranslatorTotal ==
    [][AtTranslate =>
          /\ raised' = "none"
          /\ pc' \in {"initial_execute", "execute"}
          /\ DOMAIN execution' = PlanFields]_vars
C13_Witness ==
    /\ pc = "execute"
    /\ instruction = "Execute gobuster for http:80. Locate hidden directories"
    /\ execution.explanation = "Error fallback"
    /\ execution.tool = "cat"
    /\ execution.args = <<Arg("flag.txt")>>

\* C14: every plan the Executor Translator returns names a tool of the fixed
\* vocabulary, on the structured-call path as on the keyword-inference paths.
C14_PlanToolInVocabulary ==
    pc \in {"initial_execute", "execute"} => execution.tool \in ToolVocabulary

\* C15: the first action of every run is one invocation of nmap against the
\* target, before any decision round, whatever the execution model answers:
\* when run is about to invoke the first tool, the tool is nmap, the target is
\* among its arguments and the strategist has not been called.
C15_FirstActionIsScan ==
    pc = "initial_execute" =>
        /\ execution.tool = "nmap"
        /\ \E i \in 1..Len(execution.args) : execution.args[i] = Arg(target)
        /\ reasoning_history = <<>>

\* the texts that report a failed execution
ErrorTexts == {"Error: Unknown tool", "Error executing", "Error in execution"}

\* C16: a tool-execution failure becomes an Error text that is the last output
\* of the next decision round, and run goes on: once a tool outside the
\* vocabulary has been dispatched, no exception has left execute_tool and
\* result is an Error text.
C16_ToolFailureBecomesErrorText ==
    (pc \notin {"start", "initial_execute"} /\ execution.tool \notin ToolVocabulary)
        => (raised = "none" /\ result \in ErrorTexts)

\* the summary printed with the lengths of the three sequences
SummaryEmitted ==
    /\ pc = "done"
    /\ summary = <<Len(completed_actions), Len(discovered_services),
                   Len(downloaded_files)>>

\* C17: the run summary is emitted on every run, with the counts of the three
\* sequences: run takes no last step without having printed it.
C17_RunEndsWithSummary == (ENABLED Next) \/ SummaryEmitted

Sentinels == {"complete", "error"}

\* C18: a decision whose next_step is neither a tool of the vocabulary nor a
\* sentinel is never handed to the loop.
C18_UnknownNextStepRejected ==
    (rpc = "returned" /\ "next_step" \in DOMAIN returned)
        => returned["next_step"] \in ToolVocabulary \cup Sentinels

NoDuplicates(seq) == \A i, j \in 1..Len(seq) : seq[i] = seq[j] => i = j

\* C19: discovered_services never contains the same service descriptor twice.
C19_NoDuplicateServices == NoDuplicates(discovered_services)

\* C20: every iteration that does not end the run appends exactly one record
\* to completed_actions, with the number of the iteration.
C20_OneRecordPerIteration ==
    [][(pc = "execute" /\ pc' \in {"round", "EXHAUSTED"}) =>
          /\ Len(completed_actions') = Len(completed_actions) + 1
          /\ completed_actions'[Len(completed_actions')].iteration = iteration]_vars

(***************************************************************************)
(* Claims about the tool execution step of later iterations.               *)
(***************************************************************************)
\* the port lines main.py:559-563 takes from a result
PortLines(res) == ParseServices(<<>>, res)

\* C21: whenever a decision round is about to start, every port line
\* (a line with /tcp or /udp) of the result of the tool execution before it
\* is in discovered_services, after the initial scan and after the execution
\* of every later iteration.
C21_ServicesParsedBeforeRound ==
    pc = "round" =>
        \A i \in 1..Len(PortLines(result)) :
            InSeq(PortLines(result)[i], discovered_services)

\* a plan for ftp in the shape [target, command-sequence, username, password]
FtpRetrievalPlan ==
    /\ execution.tool = "ftp"
    /\ Len(execution.args) = 4
    /\ ~execution.args[1].list /\ execution.args[2].list
    /\ ~execution.args[3].list /\ ~execution.args[4].list

\* the files the 'get <file>' commands of the command-sequence name
RetrievedFiles ==
    {NameOf(Words(Chars(execution.args[2].items[j]))[2]) :
        j \in {k \in 1..Len(execution.args[2].items) :
                 LET ws == Words(Chars(execution.args[2].items[k]))
                 IN  Len(ws) = 2 /\ ws[1] = Chars("get")}}

\* C22: when execute_tool returns from an ftp plan of the shape
\* [target, command-sequence, username, password], every file a 'get <file>'
\* command of the sequence names is in downloaded_files exactly once.
C22_RetrievedFileTracked ==
    [][(pc = "dispatch" /\ pc' \in {"record", "executed"} /\ FtpRetrievalPlan) =>
          \A f \in RetrievedFiles :
              Cardinality({i \in 1..Len(downloaded_files') :
                              downloaded_files'[i] = f}) = 1]_vars

C24_InvocationReturns == pc # "blocked"

(***************************************************************************)
(* The required field of a decision.                                       *)
(***************************************************************************)
\* the first parse has decoded an object without next_step
FirstParseLacksNextStep == rpc = "validate" /\ "next_step" \notin DOMAIN decision

\* C25: when the first parse of a reply yields an object without next_step,
\* validation raises for the missing field; from then on the round leaves
\* discovered_services as it was, even if the object carries a
\* discovered_services list, and what it returns is the decision of
\* _create_fallback_decision, not the object.
C25_MissingNextStepRejected ==
    /\ [](exc = MissingField =>
            /\ "next_step" \notin DOMAIN decision
            /\ rpc \in {"except_Exception", "returned"}
            /\ rpc = "returned" =>
                 /\ path = "fallback"
                 /\ returned # decision
                 /\ returned = _create_fallback_decision(tool_used, execution_result,
                                                         downloaded_files))
    /\ [][/\ FirstParseLacksNextStep =>
                exc' = MissingField /\ rpc' = "except_Exception"
          /\ (FirstParseLacksNextStep \/ exc = MissingField) =>
                UNCHANGED discovered_services]_vars

\* a rejected object that carried a discovered_services list
C25_Witness ==
    /\ rpc = "returned" /\ exc = MissingField /\ path = "fallback"
    /\ "discovered_services" \in DOMAIN decision
    /\ discovered_services = <<>>

(***************************************************************************)
(* The two fallbacks of the Executor Translator.                           *)
(***************************************************************************)
\* the ordered keyword table of the claim
KeywordTable ==
    <<[words |-> {"cat", "read"},              tool |-> "cat"],
      [words |-> {"nmap", "initial", "scan"},  tool |-> "nmap"],
      [words |-> {"ftp"},                      tool |-> "ftp"],
      [words |-> {"gobuster"},                 tool |-> "gobuster"],
      [words |-> {"whatweb"},                  tool |-> "whatweb"],
      [words |-> {"nikto"},                    tool |-> "nikto"],
      [words |-> {"enum4linux"},               tool |-> "enum4linux"],
      [words |-> {"smbclient"},                tool |-> "smbclient"],
      [words |-> {"searchsploit"},             tool |-> "searchsploit"],
      [words |-> {"nc", "netcat"},             tool |-> "nc"]>>

RowMatches(i, instr) == \E w \in KeywordTable[i].words : StrInLower(w, instr)

FirstMatch(instr) ==
    IF \E i \in 1..Len(KeywordTable) : RowMatches(i, instr)
    THEN KeywordTable[CHOOSE i \in 1..Len(KeywordTable) :
                         /\ RowMatches(i, instr)
                         /\ \A j \in 1..(i - 1) : ~RowMatches(j, instr)].tool
    ELSE "nmap"

NoCallResponse == [kind |-> "no_call", name |-> "", args |-> <<>>]
RaiseResponse  == [kind |-> "raise", name |-> "", args |-> <<>>]

\* C26: for the instruction and target run has just translated, the plan of
\* the no-call fallback and the plan of the exception fallback name the same
\* tool, the first match of the keyword table, and the same default
\* arguments for the target, and differ in the explanation; a plan of run
\* that is not from a structured call is one of the two.
C26_FallbacksAgree ==
    (pc \in {"initial_execute", "execute"}
       /\ execution.explanation # "Function calling") =>
        LET a == executor_agent_execute(instruction, target, NoCallResponse)
            b == executor_agent_execute(instruction, target, RaiseResponse)
        IN  /\ a.tool = FirstMatch(instruction) /\ b.tool = a.tool
            /\ a.args = _get_default_args(a.tool, target) /\ b.args = a.args
            /\ a.explanation # b.explanation
            /\ execution \in {a, b}

\* the exception fallback has planned ftp for an instruction formed from a
\* decision
C26_Witness ==
    /\ pc = "execute" /\ iteration > 0
    /\ execution.explanation = "Error fallback"
    /\ execution.tool = "ftp"
    /\ execution.args = _get_default_args("ftp", target)

(***************************************************************************)
(* What ends the loop at a decision.                                       *)
(***************************************************************************)
TerminalStatus == Get(returned, "status", PyNone) \in {"complete", "error"}

\* C27: at a returned decision the loop stops if and only if the status is
\* complete or error; with any other status, or none, run goes on to
\* translate the decision into an instruction, whatever its next_step.
C27_StopsIffTerminalStatus ==
    [][pc = "decided" =>
          /\ TerminalStatus => pc' \in {"COMPLETE", "ERROR"}
          /\ ~TerminalStatus =>
                pc' = "translate" /\ instruction' = FormatInstruction(returned)]_vars

(***************************************************************************)
(* A run whose plans all come from keyword inference.                      *)
(***************************************************************************)
InferredPlan == execution.explanation \in {"Fallback execution", "Error fallback"}

\* C28: when the execution model never returns a structured call, so that
\* the plan is inferred from the instruction with default arguments, the run
\* does not end by an exception or by exhausting its iterations: it goes on
\* to the decision rounds and ends in ERROR or COMPLETE.
C28_InferredRunEndsInTerminalState ==
    InferredPlan => pc \notin {"raised", "EXHAUSTED"}

\* C29: when the plan run has just translated is inferred (no structured
\* call) and the decision's next_step is a tool of the vocabulary, the plan's
\* tool is that next_step, whatever the target and the rationale.
C29_InferredToolIsNextStep ==
    (pc = "execute" /\ InferredPlan
       /\ Get(returned, "next_step", PyNone) \in ToolVocabulary) =>
        execution.tool = Get(returned, "next_step", PyNone)

(***************************************************************************)
(* What adds to downloaded_files.                                          *)
(***************************************************************************)
\* the texts a failed invocation returns (tools.py:91, main.py:493 and 510)
IsErrorText(t) ==
    /\ Len(Chars(t)) >= 5
    /\ SubSeq(Chars(t), 1, 5) = <<"E", "r", "r", "o", "r">>

\* C30: downloaded_files changes only in the step in which execute_tool
\* returns from ftp with a result that is not an error text; when ftp
\* returns an error text, raises inside execute_tool, or never returns,
\* downloaded_files is unchanged by that step.
C30_FilesOnlyFromSuccessfulFtp ==
    [][/\ downloaded_files' # downloaded_files =>
             /\ pc = "dispatch" /\ execution.tool = "ftp"
             /\ pc' \in {"record", "executed"}
             /\ ~IsErrorText(result')
       /\ (pc = "dispatch" /\ pc' # "dispatch" /\ execution.tool = "ftp"
             /\ (pc' = "blocked" \/ IsErrorText(result'))) =>
             UNCHANGED downloaded_files]_vars

\* ftp was called with a retrieval command, returned an error text, and no
\* file was added
C30_Witness ==
    /\ pc = "executed"
    /\ execution.tool = "ftp" /\ MentionsGet(execution.args)
    /\ IsErrorText(result)
    /\ downloaded_files = <<>>

====
